---- MODULE Spec2Model ----
(***************************************************************************)
(* Media ingestion of mc-recipe: the bouncer middleware (sanitize), the    *)
(* recipe and user services that link media names to an entity record,     *)
(* the media service that owns the per-entity directory, and the           *)
(* controllers that sequence them.                                         *)
(*                                                                         *)
(* A request walks through the awaits of its handler chain:                *)
(*   idle/done -Start-> recv -Bounce-> handler -Controller-> store         *)
(*   -MediaSet/MediaUnset-> rm -RemoveDir-> mk -CreateDir-> wr             *)
(*   -WriteFile*-> -Respond-> done                                         *)
(* The entity save issued by the services is not awaited by the code, so   *)
(* it is in flight (field save) until SaveLand applies it.                 *)
(***************************************************************************)
EXTENDS Integers, Sequences, FiniteSets, TLC

VARIABLES entKind, media, disk, req

vars == <<entKind, media, disk, req>>

-----------------------------------------------------------------------------
(* Bounds *)

\* largest number of parts in one multipart body
MaxParts == 2
\* number of distinct outcomes of crypto.randomBytes that are enumerated
NumScrambles == 2
\* number of requests that may be in flight together in SpecConc
MaxSlots == 2

-----------------------------------------------------------------------------
(* Values *)

Slots == 1..MaxSlots

\* the id of the one stored entity, and an id no collection holds
Ids == {"e1", "x9"}
Kinds == {"recipe", "user"}
Ops == {"attach", "replace", "detach"}

\* file names are sequences of characters
NameA == <<"a", ".", "p", "n", "g">>
DeclNames == {NameA}

\* file contents are sequences of bytes
PngBytes == <<137, 80, 78, 71, 13, 10, 26, 10, 0>>
TxtBytes == <<104, 105>>
AllBytes == {PngBytes, TxtBytes}

HexDigit == <<"0", "1", "2", "3", "4", "5", "6", "7", "8", "9",
              "a", "b", "c", "d", "e", "f">>

\* hex strings that randomBytes can resolve to (two digits per byte kept)
Scrambles == {<<"0", HexDigit[i]>> : i \in 1..NumScrambles}

\* one decoded part: output = {} when the part declares no filename
NamelessPart == [named |-> FALSE, name |-> <<>>, bytes |-> <<>>]
Parts == {[named |-> TRUE, name |-> n, bytes |-> b] : n \in DeclNames, b \in AllBytes}
           \cup {NamelessPart}

PartSeqs == UNION {[1..n -> Parts] : n \in 0..MaxParts}

Range(f) == {f[i] : i \in DOMAIN f}

Perms(n) == {p \in [1..n -> 1..n] : \A i, j \in 1..n : p[i] = p[j] => i = j}

-----------------------------------------------------------------------------
(* quick-response.js *)

\* the status of the package quickResponse builds for a code
QuickResponse(code) ==
    CASE code = 201 -> 201
      [] code = 204 -> 204
      [] code = 400 -> 400
      [] code = 404 -> 404
      [] code = 500 -> 500
      [] OTHER -> 200

NoContext == [has |-> FALSE, cleared |-> <<>>, rejected |-> <<>>]
Context(c, r) == [has |-> TRUE, cleared |-> c, rejected |-> r]

-----------------------------------------------------------------------------
(* bouncer.js *)

IsPrefix(p, s) == Len(p) <= Len(s) /\ SubSeq(s, 1, Len(p)) = p

PngSignature == <<137, 80, 78, 71, 13, 10, 26, 10>>
JpegSignature == <<255, 216, 255>>

GifSignature == <<71, 73, 70>>

\* FileType.fromBuffer: the MIME type of the leading signature, or "undefined"
FileTypeFromBuffer(bytes) ==
    IF IsPrefix(JpegSignature, bytes) THEN "image/jpeg"
    ELSE IF IsPrefix(PngSignature, bytes) THEN "image/png"
    ELSE IF IsPrefix(GifSignature, bytes) THEN "image/gif"
    ELSE "undefined"

\* the pattern /image\/(jpeg|png)/ the routes hand to bounce
MimePattern == {"image/jpeg", "image/png"}

\* the try block of clearFile throws: fromBuffer on a part without bytes,
\* or .length of the null that mime.match returns for a type the pattern
\* does not match
ClearFileThrows(file, pattern) ==
    \/ ~file.named
    \/ /\ FileTypeFromBuffer(file.bytes) # "undefined"
       /\ FileTypeFromBuffer(file.bytes) \notin pattern

\* clearFile: a part without bytes (named is FALSE: the decoder set neither
\* name nor bytes) makes fromBuffer throw, which is caught
ClearFile(file, pattern) ==
    /\ file.named
    /\ FileTypeFromBuffer(file.bytes) # "undefined"
    /\ FileTypeFromBuffer(file.bytes) \in pattern

RECURSIVE LastDot(_, _)
LastDot(f, i) == IF i = 0 THEN 0 ELSE IF f[i] = "." THEN i ELSE LastDot(f, i - 1)

\* path.parse(file.name): { name, ext }
PathParse(f) ==
    LET d == LastDot(f, Len(f))
    IN  IF d > 1 THEN [name |-> SubSeq(f, 1, d - 1), ext |-> SubSeq(f, d, Len(f))]
        ELSE [name |-> f, ext |-> <<>>]

\* `${name}-${scramble}${ext}`
UniqueName(f, scramble) ==
    PathParse(f).name \o <<"-">> \o scramble \o PathParse(f).ext

EmptyFiles == [defined |-> TRUE, cleared |-> <<>>, rejected |-> <<>>, filteredFiles |-> <<>>]
UndefinedFiles == [defined |-> FALSE, cleared |-> <<>>, rejected |-> <<>>, filteredFiles |-> <<>>]

\* variant of SanitizeOne that keeps the bytes of a rejected part among the
\* files to write
SanitizeOneKeepsRejected(acc, file, scramble, pattern) ==
    IF ClearFile(file, pattern)
    THEN [acc EXCEPT
            !.cleared = Append(@, [original |-> file.name,
                                   unique |-> UniqueName(file.name, scramble)]),
            !.filteredFiles = Append(@, [unique |-> UniqueName(file.name, scramble),
                                         name |-> file.name, bytes |-> file.bytes])]
    ELSE IF file.named /\ file.name # <<>>
    THEN [acc EXCEPT
            !.rejected = Append(@, file.name),
            !.filteredFiles = Append(@, [unique |-> UniqueName(file.name, scramble),
                                         name |-> file.name, bytes |-> file.bytes])]
    ELSE acc

\* variant of SanitizeOne without the test of file.name: a part that
\* declares no filename is pushed to rejected
SanitizeOneRejectsNameless(acc, file, scramble, pattern) ==
    IF ClearFile(file, pattern)
    THEN [acc EXCEPT
            !.cleared = Append(@, [original |-> file.name,
                                   unique |-> UniqueName(file.name, scramble)]),
            !.filteredFiles = Append(@, [unique |-> UniqueName(file.name, scramble),
                                         name |-> file.name, bytes |-> file.bytes])]
    ELSE [acc EXCEPT !.rejected = Append(@, file.name)]

\* variant of SanitizeOne in which a part whose classification threw is
\* listed nowhere
SanitizeOneDropsFaulty(acc, file, scramble, pattern) ==
    IF ClearFile(file, pattern)
    THEN [acc EXCEPT
            !.cleared = Append(@, [original |-> file.name,
                                   unique |-> UniqueName(file.name, scramble)]),
            !.filteredFiles = Append(@, [unique |-> UniqueName(file.name, scramble),
                                         name |-> file.name, bytes |-> file.bytes])]
    ELSE IF file.named /\ file.name # <<>> /\ ~ClearFileThrows(file, pattern)
    THEN [acc EXCEPT !.rejected = Append(@, file.name)]
    ELSE acc

\* the body of one task of sanitize's Promise.all, run for one part
SanitizeOne(acc, file, scramble, pattern) ==
    IF ClearFile(file, pattern)
    THEN [acc EXCEPT
            !.cleared = Append(@, [original |-> file.name,
                                   unique |-> UniqueName(file.name, scramble)]),
            !.filteredFiles = Append(@, [unique |-> UniqueName(file.name, scramble),
                                         name |-> file.name, bytes |-> file.bytes])]
    ELSE IF file.named /\ file.name # <<>>
    THEN [acc EXCEPT !.rejected = Append(@, file.name)]
    ELSE acc

\* sanitize: the tasks push in the order ord in which they complete
RECURSIVE SanitizeFrom(_, _, _, _, _, _)
SanitizeFrom(acc, files, ord, scr, pattern, k) ==
    IF k > Len(ord) THEN acc
    ELSE SanitizeFrom(SanitizeOne(acc, files[ord[k]], scr[ord[k]], pattern),
                      files, ord, scr, pattern, k + 1)

Sanitize(files, ord, scr, pattern) == SanitizeFrom(EmptyFiles, files, ord, scr, pattern, 1)

\* what randomBytes can resolve to in the tasks of a batch: it is called
\* for the parts that cleared only (<<>> marks a task that never calls it)
ScramblesFor(files, pattern) ==
    {scr \in [1..Len(files) -> Scrambles \cup {<<>>}] :
        \A i \in 1..Len(files) : scr[i] = <<>> <=> ~ClearFile(files[i], pattern)}

-----------------------------------------------------------------------------
(* bouncer.js: the multipart body on the wire and its decoder *)

NameB == <<"b", ".", "p", "n", "g">>

\* the character codes of the characters file names are written with
Ascii == ("a" :> 97) @@ ("b" :> 98) @@ ("g" :> 103) @@ ("n" :> 110)
           @@ ("p" :> 112) @@ ("." :> 46)

\* Buffer.from(text): the bytes of a name
BytesOf(text) == [i \in 1..Len(text) |-> Ascii[text[i]]]

\* buf.toString(): a byte that is no character of a name shows as "?"
BufToString(bytes) ==
    [i \in 1..Len(bytes) |->
        IF \E c \in DOMAIN Ascii : Ascii[c] = bytes[i]
        THEN CHOOSE c \in DOMAIN Ascii : Ascii[c] = bytes[i]
        ELSE "?"]

\* toString('hex') and Buffer.from(_, 'hex'); the decoder reads the body
\* with req.setEncoding('hex'), two digits per byte
HexOfByte(b) == <<HexDigit[(b \div 16) + 1], HexDigit[(b % 16) + 1]>>

ToHex(bytes) ==
    [i \in 1..(2 * Len(bytes)) |-> HexOfByte(bytes[(i + 1) \div 2])[2 - (i % 2)]]

HexValue(c) == (CHOOSE i \in 1..16 : HexDigit[i] = c) - 1

FromHex(h) ==
    [i \in 1..(Len(h) \div 2) |-> HexValue(h[2 * i - 1]) * 16 + HexValue(h[2 * i])]

CRLF == <<13, 10>>
Dashes == <<45, 45>>
Quote == <<34>>

\* Content-Disposition: form-data; name="f"
DispositionField ==
    <<67, 111, 110, 116, 101, 110, 116, 45, 68, 105, 115, 112, 111, 115, 105,
      116, 105, 111, 110, 58, 32, 102, 111, 114, 109, 45, 100, 97, 116, 97,
      59, 32, 110, 97, 109, 101, 61, 34, 102, 34>>
\* ; filename="
FilenameParam == <<59, 32, 102, 105, 108, 101, 110, 97, 109, 101, 61, 34>>
\* multipart/form-data   and   ; boundary=
MultipartType ==
    <<109, 117, 108, 116, 105, 112, 97, 114, 116, 47, 102, 111, 114, 109, 45,
      100, 97, 116, 97>>
BoundaryParam == <<59, 32, 98, 111, 117, 110, 100, 97, 114, 121, 61>>
\* the boundary the client chose, and one it did not announce
BoundaryXY == <<88, 89>>
BoundaryZZ == <<90, 90>>
\* the value of a plain form field
FieldValue == <<104, 105>>

\* file content with a blank line (CR LF CR LF) inside
CrlfBytes == <<1, 13, 10, 13, 10, 2>>

\* a GIF: a type fromBuffer detects and the pattern of the routes refuses
GifBytes == <<71, 73, 70, 56, 57, 97>>

\* the parts a client puts into a body: files (named) and plain fields
WireParts ==
    Parts \cup {[named |-> TRUE, name |-> NameB, bytes |-> PngBytes],
                [named |-> TRUE, name |-> NameA, bytes |-> <<>>],
                [named |-> TRUE, name |-> NameA, bytes |-> CrlfBytes],
                [named |-> TRUE, name |-> NameB, bytes |-> GifBytes]}

\* how a body is put on the wire: well-formed ("ok"), without a
\* Content-Type header, with a Content-Type that names no boundary, with
\* delimiters of another boundary than the header names, or cut off after
\* the headers of its last part
Shapes == {"ok", "noContentType", "noBoundary", "wrongBoundary", "truncated"}

WireBody(parts, shape) == [parts |-> parts, shape |-> shape]

WellFormed(partSeqs) == {WireBody(ps, "ok") : ps \in partSeqs}

WireBodies ==
    LET seqs == UNION {[1..n -> WireParts] : n \in 0..MaxParts}
    IN  WellFormed(seqs)
        \cup {WireBody(ps, sh) : ps \in PartSeqs \ {<<>>}, sh \in Shapes \ {"ok"}}

\* the header block and the content of one part
PartHeaders(part) ==
    IF part.named THEN DispositionField \o FilenameParam \o BytesOf(part.name) \o Quote
    ELSE DispositionField

PartContent(part) == IF part.named THEN part.bytes ELSE FieldValue

EncodePart(part, boundary, cut) ==
    Dashes \o boundary \o CRLF \o PartHeaders(part)
    \o (IF cut THEN <<>> ELSE CRLF \o CRLF \o PartContent(part) \o CRLF)

RECURSIVE EncodeParts(_, _, _, _)
EncodeParts(parts, boundary, cutLast, k) ==
    IF k > Len(parts) THEN <<>>
    ELSE EncodePart(parts[k], boundary, cutLast /\ k = Len(parts))
         \o EncodeParts(parts, boundary, cutLast, k + 1)

\* the request a client sends for a body: the Content-Type header (absent
\* or its bytes) and the stream as bounce reads it, in hex
Encode(body) ==
    LET delim == IF body.shape = "wrongBoundary" THEN BoundaryZZ ELSE BoundaryXY
        cut == body.shape = "truncated"
        stream == EncodeParts(body.parts, delim, cut, 1)
                  \o (IF cut THEN <<>> ELSE Dashes \o delim \o Dashes \o CRLF)
    IN  [hasContentType |-> body.shape # "noContentType",
         contentType |-> IF body.shape = "noBoundary" THEN MultipartType
                         ELSE MultipartType \o BoundaryParam \o BoundaryXY,
         data |-> ToHex(stream)]

MatchAt(h, i, pat) == i + Len(pat) - 1 <= Len(h) /\ SubSeq(h, i, i + Len(pat) - 1) = pat

\* the first position from i on at which the pattern matches, or 0;
\* matchLen[j] is the length of the match that starts at j (0: none)
FirstFrom(matchLen, i) ==
    LET hits == {j \in i..Len(matchLen) : matchLen[j] > 0}
    IN  IF hits = {} THEN 0 ELSE CHOOSE j \in hits : \A k \in hits : j <= k

\* str.replace(pattern, '|').split('|') and str.split(separator): the
\* pieces between the matches, taken leftmost and without overlap
RECURSIVE SplitFrom(_, _, _)
SplitFrom(h, i, matchLen) ==
    LET j == FirstFrom(matchLen, i)
    IN  IF j = 0 THEN <<SubSeq(h, i, Len(h))>>
        ELSE <<SubSeq(h, i, j - 1)>> \o SplitFrom(h, j + matchLen[j], matchLen)

\* /(2d){2}${boundary}(2d2d)?0d0a/g with the boundary in hex
BoundaryPattern(h, boundaryHex, i) ==
    LET open == <<"2", "d", "2", "d">> \o boundaryHex
        closing == open \o <<"2", "d", "2", "d", "0", "d", "0", "a">>
        plain == open \o <<"0", "d", "0", "a">>
    IN  IF MatchAt(h, i, closing) THEN Len(closing)
        ELSE IF MatchAt(h, i, plain) THEN Len(plain)
        ELSE 0

BlankLine == <<"0", "d", "0", "a", "0", "d", "0", "a">>

\* /(?<=66696c656e616d653d22)[a-f\d]+(?=22)/ : filename=" ... "
FilenameLiteral ==
    <<"6", "6", "6", "9", "6", "c", "6", "5", "6", "e", "6", "1", "6", "d",
      "6", "5", "3", "d", "2", "2">>
\* a pattern that looks for name=" instead
NameLiteral ==
    <<"6", "e", "6", "1", "6", "d", "6", "5", "3", "d", "2", "2">>

\* rb[0].match(filenamePattern): the digits after the first literal up to
\* the last 22 behind them (the class [a-f\d]+ is greedy and every
\* character of a hex string is in it), or no match
FilenameMatch(head, literal) ==
    LET starts == {i \in 1..Len(head) :
                      /\ i > Len(literal)
                      /\ SubSeq(head, i - Len(literal), i - 1) = literal
                      /\ \E r \in (i + 1)..Len(head) : MatchAt(head, r, <<"2", "2">>)}
    IN  IF starts = {} THEN [found |-> FALSE, text |-> <<>>]
        ELSE LET q == CHOOSE i \in starts : \A k \in starts : i <= k
                 ends == {r \in (q + 1)..Len(head) : MatchAt(head, r, <<"2", "2">>)}
                 last == CHOOSE r \in ends : \A k \in ends : r >= k
             IN  [found |-> TRUE, text |-> SubSeq(head, q, last - 1)]

\* what the decoder makes of one piece rb (split at the blank lines): a
\* part, or a TypeError when the piece names a file but rb[1] is undefined
Decoded(part) == [thrown |-> FALSE, part |-> part]
DecodeThrew == [thrown |-> TRUE, part |-> NamelessPart]

\* variant of ParsePart whose pattern accepts any name="..." parameter
ParsePartAnyName(rb) ==
    LET matches == FilenameMatch(rb[1], NameLiteral)
    IN  IF ~matches.found THEN Decoded(NamelessPart)
        ELSE IF Len(rb) < 2 THEN DecodeThrew
        ELSE Decoded([named |-> TRUE,
                      name |-> BufToString(FromHex(matches.text)),
                      bytes |-> FromHex(SubSeq(rb[2], 1, Len(rb[2]) - 4))])

\* the last map of parseMultipartFormData
ParsePart(rb) ==
    LET matches == FilenameMatch(rb[1], FilenameLiteral)
    IN  IF ~matches.found THEN Decoded(NamelessPart)
        ELSE IF Len(rb) < 2 THEN DecodeThrew
        ELSE Decoded([named |-> TRUE,
                      name |-> BufToString(FromHex(matches.text)),
                      bytes |-> FromHex(SubSeq(rb[2], 1, Len(rb[2]) - 4))])

NotEmptyHead(rb) == rb[1] # <<>>

\* parseMultipartFormData(raw, boundary)
ParseMultipartFormData(raw, boundary) ==
    LET boundaryHex == ToHex(boundary)
        atBoundary == [i \in 1..Len(raw) |-> BoundaryPattern(raw, boundaryHex, i)]
        pieces == SplitFrom(raw, 1, atBoundary)
        rbs == [k \in 1..Len(pieces) |->
                   LET atBlank == [i \in 1..Len(pieces[k]) |->
                                      IF MatchAt(pieces[k], i, BlankLine)
                                      THEN Len(BlankLine) ELSE 0]
                   IN  SplitFrom(pieces[k], 1, atBlank)]
        kept == SelectSeq(rbs, NotEmptyHead)
        outs == [k \in 1..Len(kept) |-> ParsePart(kept[k])]
    IN  [thrown |-> \E k \in 1..Len(outs) : outs[k].thrown,
         parts |-> [k \in 1..Len(outs) |-> outs[k].part]]

\* req.headers['content-type'].match(/(?<=boundary=).*$/)[0]: the rest of
\* the header behind the first boundary= ; a header that is missing or
\* names no boundary makes the expression throw
BoundaryOf(request) ==
    LET lit == SubSeq(BoundaryParam, 3, Len(BoundaryParam))
        ct == request.contentType
        hits == {i \in 1..Len(ct) : MatchAt(ct, i, lit)}
    IN  IF ~request.hasContentType \/ hits = {} THEN [thrown |-> TRUE, boundary |-> <<>>]
        ELSE LET i == CHOOSE j \in hits : \A k \in hits : j <= k
             IN  [thrown |-> FALSE, boundary |-> SubSeq(ct, i + Len(lit), Len(ct))]

\* the callback of req.on('end'), up to sanitize: the parts of every body
\* a client can send, decoded once
Decode(request) ==
    LET b == BoundaryOf(request)
    IN  IF b.thrown THEN [thrown |-> TRUE, parts |-> <<>>]
        ELSE ParseMultipartFormData(request.data, b.boundary)

DecodedBodies == [body \in WireBodies |-> Decode(Encode(body))]

-----------------------------------------------------------------------------
(* the record store and the media root *)

\* a directory maps the names of its files to their bytes
NoFiles == [n \in {} |-> <<>>]
AbsentDir == [present |-> FALSE, files |-> NoFiles]

\* names of the files in a directory
DirNames(d) == DOMAIN d.files

\* Array.from(new Set(seq)): first occurrences, in order
RECURSIVE ArrayFromSet(_)
ArrayFromSet(s) ==
    IF s = <<>> THEN <<>>
    ELSE LET init == ArrayFromSet(SubSeq(s, 1, Len(s) - 1))
             last == s[Len(s)]
         IN  IF last \in Range(init) THEN init ELSE Append(init, last)

\* filenames.map(m => m.unique)
Uniques(cleared) == [i \in 1..Len(cleared) |-> cleared[i].unique]

\* Recipe.exists / User.exists on the collection the route belongs to
Exists(kind, id) == id = "e1" /\ entKind = kind

NoSave == [pending |-> FALSE, value |-> <<>>]

\* a request: its inputs (op .. body, and scr, what randomBytes resolved
\* to for each part), the parts decoded from the body, the position of its
\* handler chain
\* (pc), what bounce left in req.files, the save in flight, the writes in
\* flight, the response, and a record of what it met on the way
\* (thrown, saveFailed, rmFailed, mkFailed, failed, preMedia, preDisk)
IdleReq == [pc |-> "idle", op |-> "attach", kind |-> "recipe", id |-> "e1",
            auth |-> "ok", emptyBody |-> FALSE, body |-> WireBody(<<>>, "ok"),
            parts |-> <<>>, scr |-> <<>>,
            files |-> UndefinedFiles,
            save |-> NoSave, saveFailed |-> FALSE,
            towrite |-> {}, failed |-> {}, rmFailed |-> FALSE, mkFailed |-> FALSE,
            thrown |-> FALSE, status |-> 0, context |-> NoContext,
            preMedia |-> <<>>, preDisk |-> AbsentDir,
            nexts |-> 0, filename |-> <<>>, sent |-> [has |-> FALSE, bytes |-> <<>>],
            fw |-> [ran |-> FALSE, mode |-> 2, unauthorized |-> FALSE,
                    forbidden |-> FALSE, handler |-> "none", nexts |-> 0]]

Init ==
    /\ entKind \in Kinds
    /\ media = [i \in Ids |-> <<>>]
    /\ disk = [i \in Ids |-> AbsentDir]
    /\ req = [s \in Slots |-> IdleReq]

-----------------------------------------------------------------------------
(* a request arrives *)

\* who asks: the user routes have no session check
Callers == {<<"recipe", "ok">>, <<"recipe", "anon">>, <<"recipe", "other">>,
            <<"user", "ok">>}

Request(op, caller, id, emptyBody) ==
    [op |-> op, kind |-> caller[1], auth |-> caller[2], id |-> id,
     emptyBody |-> emptyBody]

\* the requests a client can send: uploads with a body, uploads with
\* Content-Length 0, and DELETE (no body)
Requests ==
    {Request(o, c, i, FALSE) : o \in {"attach", "replace"}, c \in Callers, i \in Ids}
    \cup {Request(o, c, i, TRUE) : o \in Ops, c \in Callers, i \in Ids}

\* the bodies a client can send: the callers that the session check turns
\* away are enumerated with bodies of no part only
Bodies(auth) == IF auth = "ok" THEN WellFormed(PartSeqs) ELSE WellFormed({<<>>})

\* ... and, when wire is set, also the bodies of WireBodies
Uploads(auth, wire) == IF wire /\ auth = "ok" THEN WireBodies ELSE Bodies(auth)

Quiet(s) == req[s].pc \in {"idle", "done", "aborted"} /\ ~req[s].save.pending

\* the request line and headers arrive
Start(s) ==
    /\ Quiet(s)
    /\ \E r \in Requests :
         req' = [req EXCEPT ![s] =
                   [IdleReq EXCEPT !.pc = "recv", !.op = r.op, !.kind = r.kind,
                                   !.id = r.id, !.auth = r.auth,
                                   !.emptyBody = r.emptyBody,
                                   !.preMedia = media[r.id],
                                   !.preDisk = disk[r.id]]]
    /\ UNCHANGED <<entKind, media, disk>>

\* the request line and headers of an upload with a body, sent to the
\* stored entity by a caller the session check lets through
StartUpload(s) ==
    /\ Quiet(s)
    /\ \E r \in {q \in Requests : /\ q.op \in {"attach", "replace"} /\ q.auth = "ok"
                                  /\ q.id = "e1" /\ ~q.emptyBody} :
         req' = [req EXCEPT ![s] =
                   [IdleReq EXCEPT !.pc = "recv", !.op = r.op, !.kind = r.kind,
                                   !.id = r.id, !.auth = r.auth,
                                   !.emptyBody = r.emptyBody,
                                   !.preMedia = media[r.id],
                                   !.preDisk = disk[r.id]]]
    /\ UNCHANGED <<entKind, media, disk>>

\* the request line and headers of a replace with a body, sent to the
\* stored entity by a caller the session check lets through, on a
\* connection that carries this one request
StartReplace(s) ==
    /\ req[s].pc = "idle"
    /\ \E r \in {q \in Requests : /\ q.op = "replace" /\ q.auth = "ok"
                                  /\ q.id = "e1" /\ ~q.emptyBody} :
         req' = [req EXCEPT ![s] =
                   [IdleReq EXCEPT !.pc = "recv", !.op = r.op, !.kind = r.kind,
                                   !.id = r.id, !.auth = r.auth,
                                   !.emptyBody = r.emptyBody,
                                   !.preMedia = media[r.id],
                                   !.preDisk = disk[r.id]]]
    /\ UNCHANGED <<entKind, media, disk>>

\* variant of Bounce that calls next before the body has been read (the
\* callback of 'end' sets req.files later, too late for the handler)
BounceNextsEarly(s, wire) ==
    /\ req[s].pc = "recv"
    /\ IF req[s].op = "detach"
       THEN req' = [req EXCEPT ![s].pc = "handler"]
       ELSE req' = [req EXCEPT ![s].pc = "handler", ![s].nexts = @ + 1]
    /\ UNCHANGED <<entKind, media, disk>>

\* bounce: the DELETE routes mount no bouncer; Content-Length 0 skips the
\* parsing and leaves req.files undefined; otherwise the body is read to
\* its end, decoded into parts and sanitized.  An error thrown in the
\* callback of 'end' is caught by nobody: next is never called and the
\* request gets no answer.
Bounce(s, wire) ==
    /\ req[s].pc = "recv"
    /\ IF req[s].op = "detach"
       THEN req' = [req EXCEPT ![s].pc = "handler"]
       ELSE IF req[s].emptyBody
       THEN req' = [req EXCEPT ![s].pc = "handler", ![s].nexts = @ + 1]
       ELSE \E body \in Uploads(req[s].auth, wire) :
            LET allFiles == DecodedBodies[body]
            IN  IF allFiles.thrown
                THEN req' = [req EXCEPT ![s].pc = "done", ![s].thrown = TRUE,
                                        ![s].body = body]
                ELSE \E ord \in Perms(Len(allFiles.parts)) :
                     \E scr \in ScramblesFor(allFiles.parts, MimePattern) :
                       req' = [req EXCEPT
                                 ![s].pc = "handler", ![s].body = body,
                                 ![s].parts = allFiles.parts, ![s].scr = scr,
                                 ![s].files = Sanitize(allFiles.parts, ord, scr,
                                                       MimePattern),
                                 ![s].nexts = @ + 1]
    /\ UNCHANGED <<entKind, media, disk>>

\* the client goes away before the end of the body: 'end' is never
\* emitted, so its callback (and next) never runs
Abort(s) ==
    /\ req[s].pc = "recv" /\ req[s].op # "detach" /\ ~req[s].emptyBody
    /\ req' = [req EXCEPT ![s].pc = "aborted"]
    /\ UNCHANGED <<entKind, media, disk>>

-----------------------------------------------------------------------------
(* services/recipe.js and services/user.js: what a service call returns    *)
(* (status), the save it issues without awaiting it, and whether it threw  *)

Returned(status, save) == [status |-> status, save |-> save, thrown |-> FALSE]
Threw == [status |-> 0, save |-> NoSave, thrown |-> TRUE]
SaveOf(value) == [pending |-> TRUE, value |-> value]

\* variant of RecipeSetMedia that overwrites the list as resetMedia does
RecipeSetMediaOverwrites(exists, cur, filenames) ==
    IF ~exists THEN Returned(QuickResponse(404), NoSave)
    ELSE IF Len(filenames) > 0
    THEN Returned(QuickResponse(200), SaveOf(ArrayFromSet(Uniques(filenames))))
    ELSE Returned(QuickResponse(200), NoSave)

\* recipe setMedia(id, filenames): cur is the media of the fetched record
RecipeSetMedia(exists, cur, filenames) ==
    IF ~exists THEN Returned(QuickResponse(404), NoSave)
    ELSE IF Len(filenames) > 0
    THEN Returned(QuickResponse(200), SaveOf(ArrayFromSet(cur \o Uniques(filenames))))
    ELSE Returned(QuickResponse(200), NoSave)

\* recipe resetMedia(id, filenames)
RecipeResetMedia(exists, cur, filenames) ==
    IF ~exists THEN Returned(QuickResponse(404), NoSave)
    ELSE IF Len(filenames) > 0
    THEN Returned(QuickResponse(200), SaveOf(ArrayFromSet(Uniques(filenames))))
    ELSE Returned(QuickResponse(200), NoSave)

\* recipe unsetMedia(id)
RecipeUnsetMedia(exists) ==
    IF ~exists THEN Returned(QuickResponse(404), NoSave)
    ELSE Returned(QuickResponse(200), SaveOf(<<>>))

\* variant of UserSetMedia that refuses whenever the user has media and
\* the request carried any file, cleared or not
UserSetMediaAnyFile(exists, cur, files) ==
    IF ~exists THEN Returned(QuickResponse(404), NoSave)
    ELSE LET mediaIncluded == \/ Len(files.cleared) > 0
                              \/ Len(files.rejected) > 0
                              \/ Len(files.filteredFiles) > 0
         IN  IF cur # <<>> /\ files.defined /\ mediaIncluded
             THEN Returned(QuickResponse(400), NoSave)
             ELSE IF ~files.defined THEN Threw
             ELSE IF Len(files.cleared) > 0
             THEN Returned(QuickResponse(200), SaveOf(files.cleared[1].unique))
             ELSE Returned(QuickResponse(200), NoSave)

\* variant of UserSetMedia without the test of user.media
UserSetMediaNoConflict(exists, cur, files) ==
    IF ~exists THEN Returned(QuickResponse(404), NoSave)
    ELSE IF ~files.defined THEN Threw
    ELSE IF Len(files.cleared) > 0
    THEN Returned(QuickResponse(200), SaveOf(files.cleared[1].unique))
    ELSE Returned(QuickResponse(200), NoSave)

\* user setMedia(id, files): files.cleared of an undefined files throws
UserSetMedia(exists, cur, files) ==
    IF ~exists THEN Returned(QuickResponse(404), NoSave)
    ELSE LET mediaIncluded == \/ Len(files.cleared) > 0
                              \/ Len(files.rejected) > 0
                              \/ Len(files.filteredFiles) > 0
             somethingWasCleared == Len(files.cleared) > 0
             noContentResponseNotNeeded ==
                 files.defined /\ mediaIncluded /\ somethingWasCleared
         IN  IF cur # <<>> /\ noContentResponseNotNeeded
             THEN Returned(QuickResponse(400), NoSave)
             ELSE IF ~files.defined THEN Threw
             ELSE IF Len(files.cleared) > 0
             THEN Returned(QuickResponse(200), SaveOf(files.cleared[1].unique))
             ELSE Returned(QuickResponse(200), NoSave)

\* user resetMedia(id, files)
UserResetMedia(exists, files) ==
    IF ~exists THEN Returned(QuickResponse(404), NoSave)
    ELSE IF ~files.defined THEN Threw
    ELSE IF Len(files.cleared) > 0
    THEN Returned(QuickResponse(200), SaveOf(files.cleared[1].unique))
    ELSE Returned(QuickResponse(200), NoSave)

\* user unsetMedia(id)
UserUnsetMedia(exists) ==
    IF ~exists THEN Returned(QuickResponse(404), NoSave)
    ELSE Returned(QuickResponse(200), SaveOf(<<>>))

-----------------------------------------------------------------------------
(* controllers/recipe.js and controllers/user.js, up to the media service  *)

\* the response of a controller that returns early
Reply(s, status, context) ==
    req' = [req EXCEPT ![s].pc = "done", ![s].status = status,
                       ![s].context = context]

\* "only defer to the media service if the service call succeeds"
Defer(s, res) ==
    IF res.thrown
    THEN req' = [req EXCEPT ![s].pc = "done", ![s].thrown = TRUE]
    ELSE IF res.status # 200
    THEN Reply(s, res.status, NoContext)
    ELSE req' = [req EXCEPT ![s].pc = "store", ![s].save = res.save]

\* the session checks that open each recipe media controller
RecipeGate(s, service) ==
    IF req[s].auth = "anon" THEN Reply(s, QuickResponse(401), NoContext)
    ELSE IF req[s].auth = "other" THEN Reply(s, QuickResponse(403), NoContext)
    ELSE service

PostRecipeMedia(s) ==
    /\ req[s].pc = "handler" /\ req[s].kind = "recipe" /\ req[s].op = "attach"
    /\ RecipeGate(s,
         IF ~req[s].files.defined THEN Defer(s, Threw)
         ELSE Defer(s, RecipeSetMedia(Exists("recipe", req[s].id),
                                      media[req[s].id], req[s].files.cleared)))
    /\ UNCHANGED <<entKind, media, disk>>

PutRecipeMedia(s) ==
    /\ req[s].pc = "handler" /\ req[s].kind = "recipe" /\ req[s].op = "replace"
    /\ RecipeGate(s,
         IF ~req[s].files.defined THEN Defer(s, Threw)
         ELSE Defer(s, RecipeResetMedia(Exists("recipe", req[s].id),
                                        media[req[s].id], req[s].files.cleared)))
    /\ UNCHANGED <<entKind, media, disk>>

DeleteRecipeMedia(s) ==
    /\ req[s].pc = "handler" /\ req[s].kind = "recipe" /\ req[s].op = "detach"
    /\ RecipeGate(s, Defer(s, RecipeUnsetMedia(Exists("recipe", req[s].id))))
    /\ UNCHANGED <<entKind, media, disk>>

PostUserMedia(s) ==
    /\ req[s].pc = "handler" /\ req[s].kind = "user" /\ req[s].op = "attach"
    /\ Defer(s, UserSetMedia(Exists("user", req[s].id), media[req[s].id], req[s].files))
    /\ UNCHANGED <<entKind, media, disk>>

PutUserMedia(s) ==
    /\ req[s].pc = "handler" /\ req[s].kind = "user" /\ req[s].op = "replace"
    /\ Defer(s, UserResetMedia(Exists("user", req[s].id), req[s].files))
    /\ UNCHANGED <<entKind, media, disk>>

DeleteUserMedia(s) ==
    /\ req[s].pc = "handler" /\ req[s].kind = "user" /\ req[s].op = "detach"
    /\ Defer(s, UserUnsetMedia(Exists("user", req[s].id)))
    /\ UNCHANGED <<entKind, media, disk>>

\* the save a service issued reaches the store, or is rejected by it
SaveLand(s, ok) ==
    /\ req[s].save.pending
    /\ IF ok
       THEN /\ media' = [media EXCEPT ![req[s].id] = req[s].save.value]
            /\ req' = [req EXCEPT ![s].save = NoSave]
       ELSE /\ media' = media
            /\ req' = [req EXCEPT ![s].save = NoSave, ![s].saveFailed = TRUE]
    /\ UNCHANGED <<entKind, disk>>

-----------------------------------------------------------------------------
(* services/media.js *)

\* variant of MediaSet that never removes the directory before writing
MediaSetKeepsDir(s) ==
    /\ req[s].pc = "store" /\ req[s].op \in {"attach", "replace"}
    /\ LET cleared == req[s].files.cleared
           rejected == req[s].files.rejected
       IN  IF Len(cleared) = 0 /\ Len(rejected) = 0
           THEN Reply(s, QuickResponse(204), NoContext)
           ELSE IF Len(cleared) = 0
           THEN Reply(s, QuickResponse(204), Context(cleared, rejected))
           ELSE req' = [req EXCEPT ![s].pc = "mk"]
    /\ UNCHANGED <<entKind, media, disk>>

\* variant of MediaSet that answers a batch with a rejected file as it
\* answers an empty batch
MediaSetRejectedIsNothing(s) ==
    /\ req[s].pc = "store" /\ req[s].op \in {"attach", "replace"}
    /\ LET cleared == req[s].files.cleared
           rejected == req[s].files.rejected
           overwrite == req[s].op = "replace"
       IN  IF Len(cleared) = 0
           THEN Reply(s, QuickResponse(204), NoContext)
           ELSE req' = [req EXCEPT ![s].pc = IF overwrite THEN "rm" ELSE "mk"]
    /\ UNCHANGED <<entKind, media, disk>>

\* variant of MediaSet that removes the directory of a replace before it
\* looks at what was cleared
MediaSetAlwaysRemoves(s) ==
    /\ req[s].pc = "store" /\ req[s].op \in {"attach", "replace"}
    /\ LET cleared == req[s].files.cleared
           rejected == req[s].files.rejected
           overwrite == req[s].op = "replace"
       IN  /\ disk' = IF overwrite THEN [disk EXCEPT ![req[s].id] = AbsentDir] ELSE disk
           /\ IF Len(cleared) = 0 /\ Len(rejected) = 0
              THEN Reply(s, QuickResponse(204), NoContext)
              ELSE IF Len(cleared) = 0
              THEN Reply(s, QuickResponse(204), Context(cleared, rejected))
              ELSE req' = [req EXCEPT ![s].pc = IF overwrite THEN "rm" ELSE "mk"]
    /\ UNCHANGED <<entKind, media>>

\* variant of MediaSet that writes (and so creates the directory) whenever
\* the batch is not empty
MediaSetCreatesForRejected(s) ==
    /\ req[s].pc = "store" /\ req[s].op \in {"attach", "replace"}
    /\ LET cleared == req[s].files.cleared
           rejected == req[s].files.rejected
           overwrite == req[s].op = "replace"
       IN  IF Len(cleared) = 0 /\ Len(rejected) = 0
           THEN Reply(s, QuickResponse(204), NoContext)
           ELSE req' = [req EXCEPT ![s].pc = IF overwrite THEN "rm" ELSE "mk"]
    /\ UNCHANGED <<entKind, media, disk>>

\* set(id, files, overwrite), up to its first await: the outcome is fixed
\* by the lengths of cleared and rejected
MediaSet(s) ==
    /\ req[s].pc = "store" /\ req[s].op \in {"attach", "replace"}
    /\ LET cleared == req[s].files.cleared
           rejected == req[s].files.rejected
           nothingWasCleared == Len(cleared) = 0
           nothingWasRejected == Len(rejected) = 0
           overwrite == req[s].op = "replace"
       IN  IF nothingWasCleared /\ nothingWasRejected
           THEN Reply(s, QuickResponse(204), NoContext)
           ELSE IF nothingWasCleared
           THEN Reply(s, QuickResponse(204), Context(cleared, rejected))
           ELSE req' = [req EXCEPT ![s].pc = IF overwrite THEN "rm" ELSE "mk"]
    /\ UNCHANGED <<entKind, media, disk>>

\* unset(id), up to its first await
MediaUnset(s) ==
    /\ req[s].pc = "store" /\ req[s].op = "detach"
    /\ req' = [req EXCEPT ![s].pc = "rm"]
    /\ UNCHANGED <<entKind, media, disk>>

\* variant of RemoveDir that leaves the directory where it is
RemoveDirKeeps(s, ok) ==
    /\ req[s].pc = "rm"
    /\ disk' = disk
    /\ req' = [req EXCEPT ![s].pc = IF req[s].op = "detach" THEN "respond" ELSE "mk",
                          ![s].rmFailed = ~ok]
    /\ UNCHANGED <<entKind, media>>

\* removeDir(id): rm -rf of the directory; an error is caught and dropped
RemoveDir(s, ok) ==
    /\ req[s].pc = "rm"
    /\ disk' = IF ok THEN [disk EXCEPT ![req[s].id] = AbsentDir] ELSE disk
    /\ req' = [req EXCEPT ![s].pc = IF req[s].op = "detach" THEN "respond" ELSE "mk",
                          ![s].rmFailed = ~ok]
    /\ UNCHANGED <<entKind, media>>

\* variant of CreateDir whose mkdir hands back an empty directory
CreateDirClears(s, ok) ==
    /\ req[s].pc = "mk"
    /\ disk' = IF ok THEN [disk EXCEPT ![req[s].id] = [present |-> TRUE, files |-> NoFiles]]
               ELSE disk
    /\ req' = [req EXCEPT ![s].pc = "wr", ![s].mkFailed = ~ok,
                          ![s].towrite = 1..Len(req[s].files.filteredFiles)]
    /\ UNCHANGED <<entKind, media>>

\* createDir(id): mkdir -p keeps what is there; an error is caught and
\* dropped.  writeToDisk then starts one write per filtered file.
CreateDir(s, ok) ==
    /\ req[s].pc = "mk"
    /\ disk' = IF ok THEN [disk EXCEPT ![req[s].id].present = TRUE] ELSE disk
    /\ req' = [req EXCEPT ![s].pc = "wr", ![s].mkFailed = ~ok,
                          ![s].towrite = 1..Len(req[s].files.filteredFiles)]
    /\ UNCHANGED <<entKind, media>>

\* variant of WriteToDisk without the try/catch around each writeFile: the
\* first failure rejects Promise.all and the remaining files are given up
WriteToDiskStopsAtFailure(s, ok) ==
    /\ req[s].pc = "wr"
    /\ \E i \in req[s].towrite :
       LET file == req[s].files.filteredFiles[i]
           dir == disk[req[s].id]
           written == ok /\ dir.present
       IN  /\ disk' = IF written
                      THEN [disk EXCEPT ![req[s].id].files = (file.unique :> file.bytes) @@ @]
                      ELSE disk
           /\ req' = [req EXCEPT ![s].towrite = IF written THEN @ \ {i} ELSE {},
                                 ![s].failed = IF written THEN @ ELSE @ \cup {i}]
    /\ UNCHANGED <<entKind, media>>

\* one task of writeToDisk: writeFile fails when the directory is missing
\* or the file system refuses; the error is caught and dropped
WriteToDisk(s, ok) ==
    /\ req[s].pc = "wr"
    /\ \E i \in req[s].towrite :
       LET file == req[s].files.filteredFiles[i]
           dir == disk[req[s].id]
           written == ok /\ dir.present
       IN  /\ disk' = IF written
                      THEN [disk EXCEPT ![req[s].id].files = (file.unique :> file.bytes) @@ @]
                      ELSE disk
           /\ req' = [req EXCEPT ![s].towrite = @ \ {i},
                                 ![s].failed = IF written THEN @ ELSE @ \cup {i}]
    /\ UNCHANGED <<entKind, media>>

\* the return of set (all writes settled) and of unset
Respond(s) ==
    /\ \/ req[s].pc = "wr" /\ req[s].towrite = {}
       \/ req[s].pc = "respond"
    /\ IF req[s].op = "detach"
       THEN Reply(s, QuickResponse(200), NoContext)
       ELSE Reply(s, QuickResponse(201),
                  Context(req[s].files.cleared, req[s].files.rejected))
    /\ UNCHANGED <<entKind, media, disk>>

-----------------------------------------------------------------------------
(* auth-firewall.js *)

\* what parseInt(opts.mode) can be, and what the two checks return for the
\* request at hand
Modes == -1..3
FwOpts == [mode : Modes, unauthorized : BOOLEAN, forbidden : BOOLEAN]

\* what the firewall did: the handler it ran, the calls of next it made
FwOutcome(opts, handler, nexts) ==
    [ran |-> TRUE, mode |-> opts.mode, unauthorized |-> opts.unauthorized,
     forbidden |-> opts.forbidden, handler |-> handler, nexts |-> nexts]

\* variant of AuthFw that runs the forbidden check in mode 1 as well
AuthFwForbidsInModeOne(s, opts) ==
    /\ req[s].pc = "recv" /\ req[s].kind = "recipe" /\ ~req[s].fw.ran
    /\ IF opts.mode <= 0 \/ opts.mode > 2
       THEN req' = [req EXCEPT ![s].fw = FwOutcome(opts, "none", 1)]
       ELSE IF opts.unauthorized
       THEN req' = [req EXCEPT ![s].fw = FwOutcome(opts, "unauthorized", 0),
                               ![s].pc = "done", ![s].status = QuickResponse(401)]
       ELSE IF opts.forbidden
       THEN req' = [req EXCEPT ![s].fw = FwOutcome(opts, "forbidden", 0),
                               ![s].pc = "done", ![s].status = QuickResponse(403)]
       ELSE req' = [req EXCEPT ![s].fw = FwOutcome(opts, "none", 1)]
    /\ UNCHANGED <<entKind, media, disk>>

\* authFw(opts), the first middleware of the recipe routes: a handler
\* answers the request and next is not called; otherwise next hands the
\* request on
AuthFw(s, opts) ==
    /\ req[s].pc = "recv" /\ req[s].kind = "recipe" /\ ~req[s].fw.ran
    /\ IF opts.mode <= 0 \/ opts.mode > 2
       THEN req' = [req EXCEPT ![s].fw = FwOutcome(opts, "none", 1)]
       ELSE IF opts.unauthorized
       THEN req' = [req EXCEPT ![s].fw = FwOutcome(opts, "unauthorized", 0),
                               ![s].pc = "done", ![s].status = QuickResponse(401)]
       ELSE IF opts.mode = 2 /\ opts.forbidden
       THEN req' = [req EXCEPT ![s].fw = FwOutcome(opts, "forbidden", 0),
                               ![s].pc = "done", ![s].status = QuickResponse(403)]
       ELSE req' = [req EXCEPT ![s].fw = FwOutcome(opts, "none", 1)]
    /\ UNCHANGED <<entKind, media, disk>>

-----------------------------------------------------------------------------
(* reading a file back: GET /:id/media/:filename                           *)

\* a name no directory holds
NoSuchName == <<"n", "o", "n", "e", ".", "p", "n", "g">>

Undefined == [has |-> FALSE, bytes |-> <<>>]
Buffer(bytes) == [has |-> TRUE, bytes |-> bytes]

\* the GET routes mount neither the firewall nor the bouncer
StartRead(s) ==
    /\ Quiet(s)
    /\ \E kind \in Kinds, id \in Ids, name \in DirNames(disk["e1"]) \cup {NoSuchName} :
         req' = [req EXCEPT ![s] =
                   [IdleReq EXCEPT !.pc = "read", !.op = "fetch", !.kind = kind,
                                   !.id = id, !.filename = name,
                                   !.preMedia = media[id], !.preDisk = disk[id]]]
    /\ UNCHANGED <<entKind, media, disk>>

\* fetch(id, name): quickResponse(200, result) has no case for 200, so
\* ok(result) puts the bytes into data.message and sets no data.context
Fetch(id, name) ==
    IF name \in DirNames(disk[id])
    THEN [status |-> QuickResponse(200), message |-> Buffer(disk[id].files[name]),
          context |-> Undefined]
    ELSE [status |-> QuickResponse(404), message |-> Undefined, context |-> Undefined]

\* getRecipeMedia sends data.message
GetRecipeMedia(s) ==
    /\ req[s].pc = "read" /\ req[s].kind = "recipe"
    /\ LET res == Fetch(req[s].id, req[s].filename)
       IN  req' = [req EXCEPT ![s].pc = "done", ![s].status = res.status,
                              ![s].sent = IF res.status # 200 THEN Undefined
                                          ELSE res.message]
    /\ UNCHANGED <<entKind, media, disk>>

\* getUserMedia sends data.context
GetUserMedia(s) ==
    /\ req[s].pc = "read" /\ req[s].kind = "user"
    /\ LET res == Fetch(req[s].id, req[s].filename)
       IN  req' = [req EXCEPT ![s].pc = "done", ![s].status = res.status,
                              ![s].sent = IF res.status # 200 THEN Undefined
                                          ELSE res.context]
    /\ UNCHANGED <<entKind, media, disk>>

-----------------------------------------------------------------------------
(* specifications *)

\* the steps of the request in slot s; faults says whether the file
\* system and the store may refuse an operation
Handle(s, faults) ==
    \/ Bounce(s, FALSE)
    \/ Abort(s)
    \/ PostRecipeMedia(s)
    \/ PutRecipeMedia(s)
    \/ DeleteRecipeMedia(s)
    \/ PostUserMedia(s)
    \/ PutUserMedia(s)
    \/ DeleteUserMedia(s)
    \/ MediaSet(s)
    \/ MediaUnset(s)
    \/ \E ok \in {TRUE, ~faults} : SaveLand(s, ok)
    \/ \E ok \in {TRUE, ~faults} : RemoveDir(s, ok)
    \/ \E ok \in {TRUE, ~faults} : CreateDir(s, ok)
    \/ \E ok \in {TRUE, ~faults} : WriteToDisk(s, ok)
    \/ Respond(s)

\* one request at a time, on a file system and a store that do not fail
Next == Start(1) \/ Handle(1, FALSE)

Spec == Init /\ [][Next]_vars

\* one request at a time; any file system or store operation may fail
NextFaults == Start(1) \/ Handle(1, TRUE)

SpecFaults == Init /\ [][NextFaults]_vars

\* the steps of an upload in slot s; a writeFile may fail when faults is set
Upload(s, faults) ==
    \/ Bounce(s, FALSE)
    \/ PostRecipeMedia(s)
    \/ PutRecipeMedia(s)
    \/ PostUserMedia(s)
    \/ PutUserMedia(s)
    \/ MediaSet(s)
    \/ SaveLand(s, TRUE)
    \/ RemoveDir(s, TRUE)
    \/ CreateDir(s, TRUE)
    \/ \E ok \in {TRUE, ~faults} : WriteToDisk(s, ok)
    \/ Respond(s)

\* one upload at a time, where a writeFile may fail
NextWrites == StartUpload(1) \/ Upload(1, TRUE)

SpecWrites == Init /\ [][NextWrites]_vars

\* the steps of a replace in slot s
Replace(s) ==
    \/ Bounce(s, FALSE)
    \/ PutRecipeMedia(s)
    \/ PutUserMedia(s)
    \/ MediaSet(s)
    \/ SaveLand(s, TRUE)
    \/ RemoveDir(s, TRUE)
    \/ CreateDir(s, TRUE)
    \/ WriteToDisk(s, TRUE)
    \/ Respond(s)

\* one replace in every slot, all for the same entity, their steps
\* interleaved at the awaits
NextConc == \E s \in Slots : StartReplace(s) \/ Replace(s)

SpecConc == Init /\ [][NextConc]_vars

\* the firewall alone, for every mode and every outcome of its checks
NextAuth == Start(1) \/ \E opts \in FwOpts : AuthFw(1, opts)

SpecAuth == Init /\ [][NextAuth]_vars

\* one request at a time, uploads and reads
NextRead ==
    Start(1) \/ Handle(1, FALSE) \/ StartRead(1) \/ GetRecipeMedia(1) \/ GetUserMedia(1)

SpecRead == Init /\ [][NextRead]_vars

\* the bouncer alone, on every body of WireBodies
NextWire == Start(1) \/ Bounce(1, TRUE)

SpecWire == Init /\ [][NextWire]_vars

-----------------------------------------------------------------------------
(* properties *)

\* the request of slot s has been answered (or its handler threw)
Answered(s) == req[s].pc = "done"

\* ... and the save it issued has reached the store
Settled(s) == Answered(s) /\ ~req[s].save.pending

\* the request passed the session check and names a stored entity
Admitted(s) == req[s].auth = "ok" /\ Exists(req[s].kind, req[s].id)

IsUpload(s) == req[s].op \in {"attach", "replace"}

\* the names an entity record refers to: the array of a recipe, the one
\* name (or none) of a user
MediaNames(id) ==
    IF id = "e1" /\ entKind = "recipe" THEN Range(media[id])
    ELSE IF media[id] = <<>> THEN {} ELSE {media[id]}

NoDuplicates(seq) == \A i, j \in 1..Len(seq) : seq[i] = seq[j] => i = j

\* the directory holds exactly the files of the batch
HoldsExactly(dir, filteredFiles) ==
    /\ dir.present
    /\ DirNames(dir) = {filteredFiles[i].unique : i \in 1..Len(filteredFiles)}
    /\ \A n \in DirNames(dir) :
         \E i \in 1..Len(filteredFiles) :
            filteredFiles[i].unique = n /\ filteredFiles[i].bytes = dir.files[n]

\* C1 (as claimed): in attach and replace the entity record changes only
\* once all disk writes of the request have completed successfully, and a
\* failed write or directory creation leaves the record as it was.
C1_RecordAfterWrites ==
    \A s \in Slots :
        (IsUpload(s) /\ req[s].pc # "idle" /\ media[req[s].id] # req[s].preMedia)
        => /\ req[s].pc = "done" \/ (req[s].pc = "wr" /\ req[s].towrite = {})
           /\ req[s].failed = {} /\ ~req[s].mkFailed

\* C2 (as claimed): after an operation that returned a success status the
\* names in the entity's directory are the names its record refers to.
C2_DiskEqualsRecord ==
    \A s \in Slots :
        (Settled(s) /\ req[s].status \in {200, 201, 204})
        => DirNames(disk[req[s].id]) = MediaNames(req[s].id)

C4_AttachAdditive ==
    \A s \in Slots :
        (Settled(s) /\ req[s].op = "attach" /\ req[s].kind = "recipe"
           /\ req[s].status = 201)
        => LET new == Uniques(req[s].files.cleared)
               now == media[req[s].id]
           IN  /\ Range(now) = Range(req[s].preMedia) \cup Range(new)
               /\ Len(now) >= Len(req[s].preMedia)
               /\ SubSeq(now, 1, Len(req[s].preMedia)) = req[s].preMedia
               /\ NoDuplicates(now)

C4_Witness ==
    \E s \in Slots :
        /\ Settled(s) /\ req[s].op = "attach" /\ req[s].kind = "recipe"
        /\ req[s].status = 201
        /\ req[s].preMedia # <<>>
        /\ Len(media[req[s].id]) > Len(req[s].preMedia)

C6_Detach ==
    \A s \in Slots :
        (Settled(s) /\ req[s].op = "detach" /\ Admitted(s))
        => /\ req[s].status = 200
           /\ disk[req[s].id] = AbsentDir
           /\ media[req[s].id] = <<>>

C6_Witness ==
    \E s \in Slots :
        /\ Settled(s) /\ req[s].op = "detach" /\ Admitted(s)
        /\ req[s].status = 200
        /\ ~req[s].preDisk.present /\ req[s].preMedia = <<>>

C8_EmptyBodyNoContent ==
    \A s \in Slots :
        (Answered(s) /\ req[s].op = "attach" /\ req[s].emptyBody /\ Admitted(s))
        => /\ req[s].status = 204
           /\ disk[req[s].id] = req[s].preDisk
           /\ media[req[s].id] = req[s].preMedia

\* C9: every file on disk has bytes that clear the pattern, every file a
\* request added is one of its cleared files, and a request whose files
\* were all rejected is answered 204 and changes nothing.
C9_RejectedNeverWritten ==
    /\ \A id \in Ids : \A n \in DirNames(disk[id]) :
          FileTypeFromBuffer(disk[id].files[n]) \in MimePattern
    /\ \A s \in Slots :
          req[s].pc \notin {"idle", "recv"}
          => \A n \in DirNames(disk[req[s].id]) :
                \/ /\ n \in DirNames(req[s].preDisk)
                   /\ req[s].preDisk.files[n] = disk[req[s].id].files[n]
                \/ \E i \in 1..Len(req[s].files.cleared) :
                      /\ req[s].files.cleared[i].unique = n
                      /\ req[s].files.filteredFiles[i].bytes = disk[req[s].id].files[n]
                      /\ \E k \in 1..Len(req[s].parts) :
                            /\ req[s].parts[k].bytes = disk[req[s].id].files[n]
                            /\ ClearFile(req[s].parts[k], MimePattern)
    /\ \A s \in Slots :
          (Answered(s) /\ IsUpload(s) /\ Admitted(s)
             /\ Len(req[s].files.cleared) = 0 /\ Len(req[s].files.rejected) > 0)
          => /\ req[s].status = 204
             /\ disk[req[s].id] = req[s].preDisk
             /\ media[req[s].id] = req[s].preMedia
             /\ ~req[s].save.pending

C9_Witness ==
    \E s \in Slots :
        /\ Answered(s) /\ IsUpload(s) /\ Admitted(s)
        /\ Len(req[s].files.rejected) > 0 /\ Len(req[s].files.cleared) > 0
        /\ req[s].failed = {}
        /\ DirNames(disk[req[s].id]) # DirNames(req[s].preDisk)

\* C10 (as claimed): an operation during which a write, the creation or
\* the removal of the directory failed does not answer with success.
C10_FailureReported ==
    \A s \in Slots :
        (Answered(s) /\ (req[s].failed # {} \/ req[s].mkFailed \/ req[s].rmFailed))
        => req[s].status \notin {200, 201}

\* C11 (as claimed): an upload whose entity save was refused by the store
\* is answered with a 500, never with a success; the files it wrote stay.
C11_SaveFailureSurfaced ==
    \A s \in Slots :
        (Settled(s) /\ IsUpload(s) /\ req[s].saveFailed)
        => /\ req[s].status = 500
           /\ \A i \in 1..Len(req[s].files.filteredFiles) :
                 i \notin req[s].failed
                 => req[s].files.filteredFiles[i].unique \in DirNames(disk[req[s].id])

\* C12 (as claimed): attach, replace and detach on an id the collection
\* does not hold are answered with 404 and change neither the directory
\* nor the record of that id.
C12_UnknownIdNotFound ==
    \A s \in Slots :
        (Answered(s) /\ req[s].auth = "ok" /\ ~Exists(req[s].kind, req[s].id))
        => /\ req[s].status = 404
           /\ disk[req[s].id] = req[s].preDisk
           /\ media[req[s].id] = req[s].preMedia
           /\ ~req[s].save.pending

\* C20: createDir on a directory that exists keeps the files in it, and
\* removeDir on a directory that is absent leaves it absent; either call
\* returns and the handler goes on.
C20_DirectoryIdempotent ==
    [][\A s \in Slots :
          LET id == req[s].id
          IN  /\ (req[s].pc = "mk" /\ req'[s].pc = "wr")
                   => /\ ~req'[s].mkFailed
                      /\ disk'[id].present
                      /\ disk'[id].files = disk[id].files
              /\ (req[s].pc = "rm" /\ req'[s].pc \in {"mk", "respond"})
                   => /\ ~req'[s].rmFailed
                      /\ disk'[id] = AbsentDir
                      /\ ~disk[id].present => disk'[id] = disk[id]]_vars

C20_Witness ==
    \E s \in Slots :
        /\ req[s].op = "attach" /\ req[s].pc = "wr"
        /\ req[s].towrite = 1..Len(req[s].files.filteredFiles)
        /\ req[s].preDisk.present /\ DirNames(req[s].preDisk) # {}
        /\ disk[req[s].id] = req[s].preDisk

\* the original names of a cleared list, and how often a value occurs in
\* a sequence
Originals(cleared) == [i \in 1..Len(cleared) |-> cleared[i].original]
Count(seq, v) == Cardinality({i \in 1..Len(seq) : seq[i] = v})
Identity(n) == [i \in 1..n |-> i]

\* the request of slot s went through sanitize
Sanitized(s) == req[s].pc \notin {"idle", "recv"} /\ req[s].files.defined

\* C13: sanitize partitions the decoded parts: a named part is counted in
\* cleared when its bytes clear the pattern and in rejected when they do
\* not, a part without a name in neither, and the three counts add up to
\* the number of parts.
C13_SanitizePartitions ==
    \A s \in Slots :
        Sanitized(s)
        => LET parts == req[s].parts
               c == Originals(req[s].files.cleared)
               r == req[s].files.rejected
               named == {i \in 1..Len(parts) : parts[i].named}
               names == {parts[i].name : i \in named}
           IN  /\ Len(c) + Len(r) + (Len(parts) - Cardinality(named)) = Len(parts)
               /\ Range(c) \cup Range(r) \subseteq names
               /\ \A n \in names :
                    /\ Count(c, n) = Cardinality({i \in named :
                           parts[i].name = n /\ ClearFile(parts[i], MimePattern)})
                    /\ Count(r, n) = Cardinality({i \in named :
                           parts[i].name = n /\ ~ClearFile(parts[i], MimePattern)})

C13_Witness ==
    \E s \in Slots :
        /\ Sanitized(s) /\ Len(req[s].parts) = MaxParts
        /\ \E i \in 1..Len(req[s].parts) : ~req[s].parts[i].named
        /\ Len(req[s].files.cleared) + Len(req[s].files.rejected) > 0

\* C14 (as claimed): no original name is both in cleared and in rejected.
C14_ClearedRejectedDisjoint ==
    \A s \in Slots :
        Sanitized(s)
        => Range(Originals(req[s].files.cleared)) \cap Range(req[s].files.rejected) = {}

\* C15 (as claimed): cleared, rejected and filteredFiles list the parts in
\* the order of the input, whatever the order in which the tasks complete.
C15_OrderPreserved ==
    \A s \in Slots :
        Sanitized(s)
        => req[s].files = Sanitize(req[s].parts, Identity(Len(req[s].parts)),
                                   req[s].scr, MimePattern)

\* C16 (as claimed): two cleared files of a batch with the same declared
\* name get different unique names.
C16_UniqueNamesDiffer ==
    \A s \in Slots :
        Sanitized(s)
        => \A i, j \in 1..Len(req[s].files.cleared) :
              (i # j /\ req[s].files.cleared[i].original = req[s].files.cleared[j].original)
              => req[s].files.cleared[i].unique # req[s].files.cleared[j].unique

\* the body of the request of slot s went through the decoder
Parsed(s) == IsUpload(s) /\ ~req[s].emptyBody /\ req[s].pc \notin {"idle", "recv"}

C18_DecodingNeverAborts ==
    \A s \in Slots :
        Parsed(s)
        => /\ ~req[s].thrown
           /\ req[s].body.shape # "ok"
                => /\ req[s].files.defined
                   /\ req[s].files.cleared = <<>>
                   /\ req[s].files.rejected = <<>>

\* C19 (as claimed): the bytes decoded for a file part of a well-formed
\* body are the bytes the part carries.
C19_BytesRoundTrip ==
    \A s \in Slots :
        (Parsed(s) /\ req[s].body.shape = "ok" /\ ~req[s].thrown)
        => \A i \in 1..Len(req[s].body.parts) :
              req[s].body.parts[i].named
              => /\ i <= Len(req[s].parts)
                 /\ req[s].parts[i].bytes = req[s].body.parts[i].bytes

\* C30: a replace in which nothing was cleared leaves the directory, its
\* files and the reference list of the entity as they were.
C30_ReplaceNothingCleared ==
    \A s \in Slots :
        (req[s].op = "replace" /\ req[s].pc \notin {"idle", "recv"} /\ Admitted(s)
           /\ Len(req[s].files.cleared) = 0)
        => /\ disk[req[s].id] = req[s].preDisk
           /\ media[req[s].id] = req[s].preMedia
           /\ ~req[s].save.pending
           /\ (Answered(s) /\ req[s].files.defined) => req[s].status = 204

C30_Witness ==
    \E s \in Slots :
        /\ Answered(s) /\ req[s].op = "replace" /\ Admitted(s)
        /\ Len(req[s].files.cleared) = 0 /\ Len(req[s].files.rejected) > 0
        /\ req[s].status = 204
        /\ DirNames(req[s].preDisk) # {} /\ req[s].preMedia # <<>>
        /\ disk[req[s].id] = req[s].preDisk

\* C28: an attach on a user whose media field is set never changes the
\* field and never creates, removes or writes anything in the directory.
C28_UserAttachOnce ==
    \A s \in Slots :
        (req[s].op = "attach" /\ req[s].kind = "user" /\ req[s].pc # "idle"
           /\ Admitted(s) /\ req[s].preMedia # <<>>)
        => /\ media[req[s].id] = req[s].preMedia
           /\ disk[req[s].id] = req[s].preDisk
           /\ ~req[s].save.pending

C28_Witness ==
    \E s \in Slots :
        /\ Answered(s) /\ req[s].op = "attach" /\ req[s].kind = "user"
        /\ Admitted(s) /\ req[s].preMedia # <<>>
        /\ Len(req[s].files.filteredFiles) = MaxParts
        /\ \A i \in 1..MaxParts : req[s].files.cleared[i].unique # req[s].preMedia

\* C29 (as claimed): the status of the package quickResponse builds is the
\* code it was called with, for every code its callers pass; so a caller
\* without a session is answered 401 and one who is not the creator 403.
C29_StatusIsCode ==
    /\ \A code \in {200, 201, 204, 400, 401, 403, 404, 500} : QuickResponse(code) = code
    /\ \A s \in Slots :
          (Answered(s) /\ ~req[s].thrown)
          => /\ req[s].auth = "anon" => req[s].status = 401
             /\ req[s].auth = "other" => req[s].status = 403

\* C21: the directory of an entity comes into being only in a createDir
\* of an upload that cleared a file, goes away only in the removeDir of a
\* detach or a replace, holds files only while it is there, is absent
\* after a detach and present after an upload that wrote.
C21_Lifecycle ==
    [][\A id \in Ids :
          /\ (~disk[id].present /\ disk'[id].present)
                => \E s \in Slots :
                      /\ req[s].id = id /\ req[s].pc = "mk" /\ IsUpload(s)
                      /\ Len(req[s].files.cleared) > 0
          /\ (disk[id].present /\ ~disk'[id].present)
                => \E s \in Slots :
                      /\ req[s].id = id /\ req[s].pc = "rm"
                      /\ req[s].op \in {"detach", "replace"}
          /\ DirNames(disk'[id]) # {} => disk'[id].present
          /\ \A s \in Slots :
                (req[s].id = id /\ req[s].pc # "done" /\ req'[s].pc = "done")
                => /\ req'[s].status = 201 => disk'[id].present
                   /\ (req[s].op = "detach" /\ Admitted(s) /\ ~req'[s].thrown)
                         => ~disk'[id].present]_vars

C21_Witness ==
    \E s \in Slots :
        /\ req[s].op = "replace" /\ req[s].pc = "wr" /\ req[s].towrite = {}
        /\ req[s].preDisk.present /\ DirNames(req[s].preDisk) # {}
        /\ disk[req[s].id].present
        /\ DirNames(disk[req[s].id]) \cap DirNames(req[s].preDisk) = {}

\* C26: in writeToDisk a file whose write failed does not keep the other
\* files from being attempted: when set answers, no file is left untried
\* and every file whose write did not fail is in the directory with its
\* bytes.
C26_WritesIndependent ==
    \A s \in Slots :
        (IsUpload(s) /\ req[s].pc \in {"wr", "done"} /\ Len(req[s].files.cleared) > 0
           /\ (Answered(s) => req[s].status = 201))
        => /\ Answered(s) => req[s].towrite = {}
           /\ \A i \in 1..Len(req[s].files.filteredFiles) :
                 i \notin (req[s].towrite \cup req[s].failed)
                 => LET file == req[s].files.filteredFiles[i]
                    IN  /\ file.unique \in DirNames(disk[req[s].id])
                        /\ disk[req[s].id].files[file.unique] = file.bytes

C26_Witness ==
    \E s \in Slots :
        /\ Answered(s) /\ IsUpload(s) /\ req[s].status = 201
        /\ req[s].failed # {}
        /\ \E i \in 1..Len(req[s].files.filteredFiles) :
              /\ i \notin req[s].failed
              /\ req[s].files.filteredFiles[i].unique \in DirNames(disk[req[s].id])

\* the parts whose classification threw, and the others in their order
Faulty(parts) == {i \in 1..Len(parts) : ClearFileThrows(parts[i], MimePattern)}
Sound(parts) == (1..Len(parts)) \ Faulty(parts)
NthOf(idx, k) == CHOOSE i \in idx : Cardinality({j \in idx : j < i}) = k - 1

\* C25: a fault while one candidate is classified makes that candidate
\* rejected when it has a name, and leaves the outcome of the others as it
\* is for the batch without the faulty candidates.
C25_FaultIsolated ==
    \A s \in Slots :
        Sanitized(s)
        => LET parts == req[s].parts
               sound == Sound(parts)
               others == [k \in 1..Cardinality(sound) |-> parts[NthOf(sound, k)]]
               scr == [k \in 1..Cardinality(sound) |-> req[s].scr[NthOf(sound, k)]]
               alone == Sanitize(others, Identity(Len(others)), scr, MimePattern)
               faultyNamed(n) == {i \in Faulty(parts) : parts[i].named /\ parts[i].name = n}
               names == (Range(req[s].files.rejected) \cup Range(alone.rejected)
                           \cup {parts[i].name : i \in Faulty(parts)}) \ {<<>>}
           IN  /\ \A v \in Range(req[s].files.cleared) \cup Range(alone.cleared) :
                     Count(req[s].files.cleared, v) = Count(alone.cleared, v)
               /\ \A v \in Range(req[s].files.filteredFiles) \cup Range(alone.filteredFiles) :
                     Count(req[s].files.filteredFiles, v) = Count(alone.filteredFiles, v)
               /\ \A n \in names :
                     Count(req[s].files.rejected, n)
                        = Count(alone.rejected, n) + Cardinality(faultyNamed(n))

C25_Witness ==
    \E s \in Slots :
        /\ Sanitized(s) /\ Len(req[s].parts) = MaxParts
        /\ \E i \in Faulty(req[s].parts) :
              /\ req[s].parts[i].named
              /\ req[s].parts[i].name \in Range(req[s].files.rejected)
        /\ Len(req[s].files.cleared) > 0

\* C24: the bouncer calls next at most once, and for a request with a body
\* only when sanitize has filled req.files; nothing of a request is saved
\* or written before that, and nothing at all for a request that was
\* aborted before the end of its body.
C24_WritesAfterSanitize ==
    \A s \in Slots :
        (IsUpload(s) /\ req[s].pc # "idle")
        => /\ req[s].nexts <= 1
           /\ (req[s].nexts = 1 /\ ~req[s].emptyBody) => req[s].files.defined
           /\ req[s].pc \in {"handler", "store", "rm", "mk", "wr", "respond"}
                 => req[s].nexts = 1
           /\ (\/ disk[req[s].id] # req[s].preDisk
               \/ media[req[s].id] # req[s].preMedia
               \/ req[s].save.pending)
                 => req[s].nexts = 1 /\ req[s].files.defined
           /\ req[s].pc = "aborted"
                 => /\ req[s].nexts = 0 /\ ~req[s].save.pending
                    /\ disk[req[s].id] = req[s].preDisk
                    /\ media[req[s].id] = req[s].preMedia

C24_Witness ==
    \E s \in Slots :
        /\ IsUpload(s) /\ req[s].pc = "wr" /\ req[s].nexts = 1
        /\ req[s].files.defined /\ Len(req[s].files.rejected) > 0
        /\ disk[req[s].id] # req[s].preDisk
        /\ req[s].towrite # {}

\* C23 (as claimed): a read is answered 404 when the directory holds no
\* file of that name, and otherwise 200 with the bytes of the stored file
\* sent to the client, on the recipe route and on the user route alike.
C23_ReadSendsStoredBytes ==
    \A s \in Slots :
        (Answered(s) /\ req[s].op = "fetch")
        => IF req[s].filename \in DirNames(disk[req[s].id])
           THEN /\ req[s].status = 200
                /\ req[s].sent = Buffer(disk[req[s].id].files[req[s].filename])
           ELSE req[s].status = 404

\* the unique names the request of slot s wrote
Written(s) ==
    {req[s].files.filteredFiles[i].unique : i \in 1..Len(req[s].files.filteredFiles)}

\* C22 (as claimed): when the concurrent replaces of one entity have all
\* finished, the directory holds the files of one single request, never a
\* mixture of the files of several.
C22_LastWriterWins ==
    (\A s \in Slots : Settled(s) /\ req[s].op = "replace" /\ req[s].status = 201)
    => \E s \in Slots : DirNames(disk["e1"]) = Written(s)

\* access is allowed by a mode and the outcomes of the two checks
Allowed(fw) ==
    \/ fw.mode = 0
    \/ fw.mode = 1 /\ ~fw.unauthorized
    \/ fw.mode = 2 /\ ~fw.unauthorized /\ ~fw.forbidden

\* C27: for the modes 0, 1 and 2 the firewall calls next (once) exactly
\* when access is allowed; when it is not, the handler of the first check
\* that fired runs, alone, and next is not called.
C27_NextIffAllowed ==
    \A s \in Slots :
        (req[s].fw.ran /\ req[s].fw.mode \in 0..2)
        => LET fw == req[s].fw
           IN  /\ fw.nexts = (IF Allowed(fw) THEN 1 ELSE 0)
               /\ Allowed(fw) => fw.handler = "none" /\ req[s].pc = "recv"
               /\ ~Allowed(fw)
                     => /\ fw.handler = (IF fw.unauthorized THEN "unauthorized"
                                         ELSE "forbidden")
                        /\ req[s].pc = "done"

C27_Witness ==
    \E s \in Slots :
        /\ req[s].fw.ran /\ req[s].fw.mode = 2
        /\ req[s].fw.unauthorized /\ req[s].fw.forbidden
        /\ req[s].fw.handler = "unauthorized" /\ req[s].fw.nexts = 0

====
